---- MODULE Spec2Model ----
(***************************************************************************)
(* sparql-proxy: the /sparql request handler, the job queue it enqueues    *)
(* into, the filesystem cache store and the admin live channel.            *)
(*                                                                         *)
(* One request creates at most one job, so a job is named by the request   *)
(* that created it.  A handler runs without interruption between two       *)
(* awaits (Node's run-to-completion; promise continuations are microtasks  *)
(* that run before the next I/O event), so each action is the code between *)
(* two awaits, together with the queue code it calls.                      *)
(*                                                                         *)
(* The queue (./queue), the job (./job) and the cache base class (./base)  *)
(* are imported by the server but are not among the source files; they are *)
(* modelled from the specification (sections 4.B, 4.E, 4.F, 5 and 7).      *)
(***************************************************************************)
EXTENDS Integers, Sequences, FiniteSets, TLC

\* ------------------------------------------------------------------ bounds
NumReq == 3          \* HTTP requests to /sparql in one behaviour
MaxStale == 1        \* finished jobs that still have an answer or a timer pending
MaxRows == 4         \* rows the backend holds for a query

Reqs == 1..NumReq

\* ------------------------------------------------------------ input domains
DefaultAccept == "application/sparql-results+json"

\* Raw query texts: absent, unparsable, an update, and two spellings of one
\* SELECT.
NoQuery == ""
RawQueries == {NoQuery, "SELEKT ?x", "INSERT DATA { <a> <b> <c> }",
               "SELECT ?s WHERE { ?s ?p ?o }", "select ?s  where {?s ?p ?o}",
               "ASK { ?s ?p ?o }"}

\* The requests a client can send: GET carries the query in the URL, POST in
\* the body (raw for application/sparql-query, the query field of a form
\* otherwise); OPTIONS and DELETE carry none.
Get(q, a) == [method |-> "GET", param |-> q, body |-> NoQuery, accept |-> a]
Post(q) == [method |-> "POST", param |-> NoQuery, body |-> q, accept |-> ""]
HttpRequests ==
  {Get("SELECT ?s WHERE { ?s ?p ?o }", ""),
   Get("SELECT ?s WHERE { ?s ?p ?o }", "application/sparql-results+xml"),
   Get(NoQuery, ""),
   Post("select ?s  where {?s ?p ?o}"),
   Post("SELEKT ?x"),
   Post("INSERT DATA { <a> <b> <c> }"),
   [method |-> "OPTIONS", param |-> NoQuery, body |-> NoQuery, accept |-> ""],
   [method |-> "DELETE", param |-> "SELECT ?s WHERE { ?s ?p ?o }", body |-> NoQuery, accept |-> ""]}

NoRequest == [method |-> "-", param |-> NoQuery, body |-> NoQuery, accept |-> ""]

\* What a job can yield: a result {contentType, body} or an error
\* {statusCode?, data?} (statusCode 0 and data "" stand for unset).
Results == {[contentType |-> "application/sparql-results+json", body |-> "B1"],
            [contentType |-> "application/sparql-results+xml", body |-> "B2"]}
NoResult == [contentType |-> "", body |-> ""]
BackendErrors == {[statusCode |-> 400, data |-> "backend says no"],
                  [statusCode |-> 0, data |-> ""]}
QueueFullError == [statusCode |-> 503, data |-> "QueueFull"]
CancelledError == [statusCode |-> 503, data |-> "Cancelled"]
TimeoutError == [statusCode |-> 504, data |-> "Timeout"]

\* Configurations (process.env read into config).
Capacities == {<<1, 0>>, <<1, 1>>, <<1, 2>>, <<2, 1>>}
QueueCapacities == {<<1, 1>>, <<1, 2>>}
Config(cap, split, store) ==
  [maxConcurrency |-> cap[1], maxWaiting |-> cap[2], enableQuerySplitting |-> split,
   cacheStore |-> store, compressor |-> "raw", durationToKeepOldJobs |-> 0,
   maxChunkLimit |-> 2, maxLimit |-> 3]
Configs == {Config(cap, split, store) :
              cap \in Capacities, split \in BOOLEAN, store \in {"null", "file"}}
QueueConfigs == {Config(cap, FALSE, "null") : cap \in QueueCapacities}
CacheConfigs == {Config(<<2, 1>>, FALSE, "file")}

VARIABLES
  config,     \* the frozen configuration
  clients,    \* how many requests arrive in this run
  queueCap,   \* the queue's own capacities, as given to its constructor
  pc,         \* pc[r]: where r's handler is suspended
  key,        \* key[r]: the cache key the handler computed
  ident,      \* ident[r]: canonical query and accept type of r
  nresp,      \* nresp[r]: how many responses have been sent for r
  ev,         \* ev[r]: the calls r's handler has made so far, in order
  saw,        \* saw[r]: what was known of r's query when r arrived; once r's
              \* job is enqueued, whether r's lookup failed or a purge came since
  files,      \* files[k]: the file store's file named k
  keyNote,    \* keyNote[i]: what has happened for query i since the last purge
  waiting,    \* the queue's waiting list, oldest first
  running,    \* the queue's running jobs
  recent,     \* the queue's finished jobs, kept until swept
  jobState,   \* jobState[j]
  jobResult,  \* jobResult[j]: the result the handler of j holds
  age,        \* age[j]: time since j ended (now - doneAt), up to the first
              \* value the sweeper's threshold tells from larger ones
  inflight,   \* jobs whose backend call has not been answered yet
  timers,     \* jobs whose timeout timer is armed
  cancelKind, \* cancelKind[j]: the state j was in when it was cancelled
  admitted,   \* the waiting and running jobs in the order they were admitted
  step,       \* what the latest step did for which request
  exec        \* one job's run: its settings, the backend calls made, the rows merged

vars == <<config, clients, queueCap, pc, key, ident, nresp, ev, saw, files, keyNote,
          waiting, running, recent, jobState, jobResult, age, inflight, timers,
          cancelKind, admitted, step, exec>>

httpVars == <<pc, key, ident, nresp, ev, saw, jobResult>>
queueVars == <<waiting, running, recent, jobState, age, inflight, timers,
               cancelKind, admitted>>
cacheVars == <<files, keyNote>>

Range(s) == {s[i] : i \in 1..Len(s)}
Min(a, b) == IF a <= b THEN a ELSE b
IndexOf(s, x) == CHOOSE i \in 1..Len(s) : s[i] = x
Without(s, x) == SelectSeq(s, LAMBDA y : y # x)

\* ------------------------------------------------------------- normalizer
\* parser.parse(compatibleQuery): throws on a syntax error.
ParseFails(q) == q = "SELEKT ?x"
\* parsedQuery.type
ParsedType(q) == IF q = "INSERT DATA { <a> <b> <c> }" THEN "update" ELSE "query"
\* parsedQuery.queryType
QueryForm(q) == IF q = "ASK { ?s ?p ?o }" THEN "ASK" ELSE "SELECT"
\* preamble + new SparqlGenerator().stringify(parsedQuery): two spellings of
\* one query serialize to the same text.
NormalizedQuery(q) ==
  IF q \in {"SELECT ?s WHERE { ?s ?p ?o }", "select ?s  where {?s ?p ?o}"}
  THEN "SELECT ?s WHERE { ?s ?p ?o }"
  ELSE q
\* The query of a request, by method.
ExtractQuery(rq) == IF rq.method = "POST" THEN rq.body ELSE rq.param
\* (config.enableQuerySplitting ? null : req.headers.accept) || default
Accept(rq) ==
  IF config.enableQuerySplitting \/ rq.accept = "" THEN DefaultAccept ELSE rq.accept
\* md5(normalizedQuery . "\0" . accept) + "." + compressor; the digest is
\* modelled as the tuple it is computed from (no collisions).
CacheKeyRaw(rq) == <<ExtractQuery(rq), Accept(rq), config.compressor>>
CacheKeyNoAccept(rq) == <<NormalizedQuery(ExtractQuery(rq)), DefaultAccept, config.compressor>>
CacheKey(rq) == <<NormalizedQuery(ExtractQuery(rq)), Accept(rq), config.compressor>>
NoKey == <<"", "", "">>

\* The names a file of the store can have.
Keys == {<<q, a, c>> :
           q \in RawQueries \ {NoQuery}, a \in {DefaultAccept, "application/sparql-results+xml"},
           c \in {"raw"}}

\* ---------------------------------------------------------------- responses
Response(status, contentType, body, xcache) ==
  [status |-> status, contentType |-> contentType, body |-> body, xcache |-> xcache]
NoResponse == Response(0, "", "", "")

\* The gates of the handler, in order; "pass" when none rejects.
GateNoTypeCheck(rq) ==
  LET q == ExtractQuery(rq) IN
  CASE rq.method = "OPTIONS" -> "options"
    [] rq.method \notin {"GET", "POST", "OPTIONS"} -> "method"
    [] q = NoQuery -> "required"
    [] ParseFails(q) -> "parse"
    [] OTHER -> "pass"
Gate(rq) ==
  LET q == ExtractQuery(rq) IN
  CASE rq.method = "OPTIONS" -> "options"
    [] rq.method \notin {"GET", "POST", "OPTIONS"} -> "method"
    [] q = NoQuery -> "required"
    [] ParseFails(q) -> "parse"
    [] ParsedType(q) # "query" -> "type"
    [] OTHER -> "pass"

GateResponse(g) ==
  CASE g = "method" -> Response(405, "text", "Method Not Allowed", "")
    [] g = "required" -> Response(400, "json", "Query is required", "")
    [] g = "parse" -> Response(400, "json", "Query parse failed", "")
    [] g = "type" -> Response(400, "text", "Query type not allowed", "")

\* The catch block of the handler: res.status(error.statusCode || 500),
\* res.send(error.data || 'ERROR').
ErrorStatusAlways500(err) == 500
ErrorStatus(err) == IF err.statusCode # 0 THEN err.statusCode ELSE 500

ErrorResponseNoStatus(err) ==
  Response(200, "text", IF err.data # "" THEN err.data ELSE "ERROR", "")
ErrorResponse(err) ==
  Response(ErrorStatus(err), "text", IF err.data # "" THEN err.data ELSE "ERROR", "")

\* The response of a miss: Content-Type and body of the job's result.
MissResponse(result) == Response(200, result.contentType, result.body, "")

\* The response of a hit: Content-Type and body of the cached entry, X-Cache.
HitResponseDefaultType(cached) == Response(200, "text", cached.body, "hit")
HitResponse(cached) == Response(200, cached.contentType, cached.body, "hit")

\* ------------------------------------------------------------- cache store
\* A file of the store: absent, partial (created or truncated and not yet
\* written, or damaged by overlapping writes) or a serialized entry.  sent
\* is the response of the request whose put wrote the file and by that
\* request's canonical query and accept type (they are not part of the
\* stored bytes).
NoIdentity == <<"", "">>
AbsentFile ==
  [kind |-> "absent", contentType |-> "", body |-> "", sent |-> NoResponse, by |-> NoIdentity]
PartialFile ==
  [kind |-> "partial", contentType |-> "", body |-> "", sent |-> NoResponse, by |-> NoIdentity]
\* serialize(obj): the entry {contentType, body} as stored.
Serialize(obj, sent) ==
  [kind |-> "entry", contentType |-> obj.contentType, body |-> obj.body, sent |-> sent,
   by |-> NoIdentity]
\* deserialize(data): the entry read back; fails on data that is no entry.
DeserializeFails(f) == f.kind # "entry"
Deserialize(f) == [contentType |-> f.contentType, body |-> f.body]

\* What identifies "the same query" to a client: canonical text and accept.
Identity(rq) == <<NormalizedQuery(ExtractQuery(rq)), Accept(rq)>>
Identities == {<<NormalizedQuery(k[1]), k[2]>> : k \in Keys}

\* ------------------------------------------------------------------- queue
\* new Queue(config.maxWaiting, config.maxConcurrency)
NewQueueSwapped(c) == [maxWaiting |-> c.maxConcurrency, maxConcurrency |-> c.maxWaiting]
NewQueue(c) == [maxWaiting |-> c.maxWaiting, maxConcurrency |-> c.maxConcurrency]

Terminal == {"success", "error", "cancelled"}

\* The n jobs of waiting list w that start when n slots are free.
NewestFirst(w, n) == SubSeq(w, Len(w) - n + 1, Len(w))
ToStart(w, n) == SubSeq(w, 1, n)

\* A finished job that is in no list and has no event pending is garbage:
\* its state is "gone".
Collect(js, rec, infl, tm) ==
  [j \in Reqs |-> IF js[j] \in Terminal /\ j \notin rec /\ j \notin infl /\ j \notin tm
                  THEN "gone" ELSE js[j]]

\* The queue after its lists became w (waiting) and run (running), the job
\* states js, the open backend calls infl and the armed timers tm: free slots
\* are filled from the waiting list, and a job that starts calls the backend
\* and arms its timeout.
Schedule(w, run, js, infl, tm) ==
  LET free == queueCap.maxConcurrency - Cardinality(run)
      n == IF free > 0 THEN Min(Len(w), free) ELSE 0
      go == ToStart(w, n)
  IN /\ waiting' = SelectSeq(w, LAMBDA j : j \notin Range(go))
     /\ running' = run \cup Range(go)
     /\ jobState' = [j \in Reqs |-> IF j \in Range(go) THEN "running" ELSE js[j]]
     /\ inflight' = infl \cup Range(go)
     /\ timers' = tm \cup Range(go)

\* The finished jobs that still have an event pending.
Stale(js, infl, tm) == {j \in infl \cup tm : js[j] \in Terminal}

\* A job j ends in state st: it leaves the waiting list or its slot and
\* moves to recent.  infl and tm are the events still pending; those of j
\* stay pending while fewer than MaxStale finished jobs have any (beyond
\* that they come after the end of the run).
Finish(j, st, infl, tm) ==
  LET keep == Cardinality(Stale(jobState, infl, tm)) < MaxStale
      infl2 == IF keep THEN infl ELSE infl \ {j}
      tm2 == IF keep THEN tm ELSE tm \ {j}
  IN /\ recent' = recent \cup {j}
     /\ age' = [age EXCEPT ![j] = 0]
     /\ admitted' = Without(admitted, j)
     /\ Schedule(Without(waiting, j), running \ {j}, [jobState EXCEPT ![j] = st],
                 infl2, tm2)

\* Whether an event for job j (a backend answer, its timer) still counts.
AnyState(j) == TRUE
StillRunning(j) == jobState[j] = "running"

\* An event for job j that no longer counts is dropped; infl and tm are the
\* events still pending.
Discard(infl, tm) ==
  /\ inflight' = infl
  /\ timers' = tm
  /\ jobState' = Collect(jobState, recent, infl, tm)
  /\ cancelKind' = [j \in Reqs |-> IF jobState'[j] = "gone" THEN "" ELSE cancelKind[j]]
  /\ UNCHANGED <<waiting, running, recent, age, admitted>>


\* ------------------------------------------------------------ the job's run
\* new Job({backend, rawQuery, accept, timeout, ip, enableQuerySplitting,
\* maxLimit, maxChunkLimit}): the settings the run depends on.
NewJobSwappedLimits(q, a) ==
  [rawQuery |-> q, accept |-> a, enableQuerySplitting |-> config.enableQuerySplitting,
   maxLimit |-> config.maxChunkLimit, maxChunkLimit |-> config.maxLimit]
NewJob(q, a) ==
  [rawQuery |-> q, accept |-> a, enableQuerySplitting |-> config.enableQuerySplitting,
   maxLimit |-> config.maxLimit, maxChunkLimit |-> config.maxChunkLimit]

\* The LIMIT of a query that has none.
NoLimit == -1
\* LIMIT and OFFSET a query can carry.
UserLimits == {NoLimit} \cup (0..MaxRows)
UserOffsets == {0, 1}

\* effectiveLimit = min(userLimit, maxLimit), userLimit infinite when absent.
EffectiveLimit(e) ==
  IF e.userLimit = NoLimit THEN e.job.maxLimit ELSE Min(e.userLimit, e.job.maxLimit)
\* chunk = min(maxChunkLimit, effectiveLimit)
ChunkSize(e) == Min(e.job.maxChunkLimit, EffectiveLimit(e))
\* The run is split when splitting is enabled and the query is a SELECT.
Splits(e) == e.job.enableQuerySplitting /\ e.form = "SELECT"
\* LIMIT of the next shard: min(chunk, effectiveLimit - collected).
ShardLimitWholeChunk(e) == ChunkSize(e)
ShardLimit(e) == Min(ChunkSize(e), EffectiveLimit(e) - Len(e.collected))

\* The backend's rows for the query, in its order, and its answer to
\* LIMIT limit OFFSET offset.
BackendRows(n) == [i \in 1..n |-> i]
BackendAnswer(n, limit, offset) ==
  SubSeq(BackendRows(n), offset + 1, IF limit = NoLimit THEN n ELSE Min(offset + limit, n))

\* No run (the specifications of the server leave the run whole).
NoExec ==
  [phase |-> "idle", req |-> NoRequest, job |-> NewJob(NoQuery, ""), form |-> "",
   key |-> NoKey, userLimit |-> NoLimit, userOffset |-> 0, rows |-> 0,
   collected |-> <<>>, offset |-> 0, calls |-> <<>>, replies |-> 0]
\* Request rq has arrived; its query has LIMIT u and OFFSET o, and the
\* backend holds n rows for it.
StartExec(rq, u, o, n) ==
  [NoExec EXCEPT !.phase = "new", !.req = rq, !.userLimit = u, !.userOffset = o,
                 !.rows = n, !.offset = o]

\* The handler computes the cache key and creates the job (the lookup
\* misses): the job's run can begin.
CreateJob ==
  /\ exec.phase = "new"
  /\ exec' = [exec EXCEPT !.phase = "ready",
                          !.key = CacheKey(exec.req),
                          !.job = NewJob(ExtractQuery(exec.req), Accept(exec.req)),
                          !.form = QueryForm(ExtractQuery(exec.req))]
  /\ UNCHANGED <<config, clients, queueCap, step>>
  /\ UNCHANGED <<httpVars, queueVars, cacheVars>>

\* The executor sends the next shard: the query rewritten with the shard's
\* LIMIT and OFFSET, Accept forced to JSON.
IssueShard ==
  /\ exec.phase = "ready"
  /\ Splits(exec)
  /\ Len(exec.collected) < EffectiveLimit(exec)
  /\ exec' = [exec EXCEPT !.phase = "sent",
                          !.calls = Append(@, [limit |-> ShardLimit(exec),
                                               offset |-> exec.offset,
                                               accept |-> DefaultAccept])]
  /\ UNCHANGED <<config, clients, queueCap, step>>
  /\ UNCHANGED <<httpVars, queueVars, cacheVars>>

\* The backend answers the shard: its bindings are appended; fewer bindings
\* than asked for end the run.
ShardReply ==
  /\ exec.phase = "sent"
  /\ Splits(exec)
  /\ LET call == exec.calls[Len(exec.calls)]
         bindings == BackendAnswer(exec.rows, call.limit, call.offset)
     IN exec' = [exec EXCEPT !.phase = IF Len(bindings) < call.limit THEN "done" ELSE "ready",
                             !.collected = @ \o bindings,
                             !.offset = @ + ChunkSize(exec),
                             !.replies = @ + 1]
  /\ UNCHANGED <<config, clients, queueCap, step>>
  /\ UNCHANGED <<httpVars, queueVars, cacheVars>>

\* Enough rows are collected: the shards are merged into the job's result.
Merge ==
  /\ exec.phase = "ready"
  /\ Splits(exec)
  /\ Len(exec.collected) >= EffectiveLimit(exec)
  /\ exec' = [exec EXCEPT !.phase = "done"]
  /\ UNCHANGED <<config, clients, queueCap, step>>
  /\ UNCHANGED <<httpVars, queueVars, cacheVars>>

\* A run that is not split forwards the query as it is, with the job's accept.
Forward ==
  /\ exec.phase = "ready"
  /\ ~Splits(exec)
  /\ exec' = [exec EXCEPT !.phase = "sent",
                          !.calls = Append(@, [limit |-> exec.userLimit,
                                               offset |-> exec.userOffset,
                                               accept |-> exec.job.accept])]
  /\ UNCHANGED <<config, clients, queueCap, step>>
  /\ UNCHANGED <<httpVars, queueVars, cacheVars>>

\* The backend's answer to a forwarded query is the job's result.
ForwardReply ==
  /\ exec.phase = "sent"
  /\ ~Splits(exec)
  /\ LET call == exec.calls[Len(exec.calls)]
     IN exec' = [exec EXCEPT !.phase = "done",
                             !.collected = BackendAnswer(exec.rows, call.limit, call.offset),
                             !.replies = @ + 1]
  /\ UNCHANGED <<config, clients, queueCap, step>>
  /\ UNCHANGED <<httpVars, queueVars, cacheVars>>

\* ------------------------------------------------------------ step record
Step(what, r, rq, rs, log, orig) ==
  [what |-> what, r |-> r, req |-> rq, resp |-> rs, ev |-> log, orig |-> orig,
   saw |-> saw[r]]
NoStep == [what |-> "", r |-> 0, req |-> NoRequest, resp |-> NoResponse, ev |-> <<>>,
           orig |-> NoResponse, saw |-> "none"]

\* ------------------------------------------------------------------- Init
InitServer(configs, n) ==
  /\ config \in configs
  /\ clients = n
  /\ queueCap = NewQueue(config)
  /\ pc = [r \in Reqs |-> "idle"]
  /\ key = [r \in Reqs |-> NoKey]
  /\ ident = [r \in Reqs |-> NoIdentity]
  /\ nresp = [r \in Reqs |-> 0]
  /\ ev = [r \in Reqs |-> <<>>]
  /\ saw = [r \in Reqs |-> "none"]
  /\ files = [k \in Keys |-> AbsentFile]
  /\ keyNote = [i \in Identities |-> "none"]
  /\ waiting = <<>>
  /\ running = {}
  /\ recent = {}
  /\ jobState = [j \in Reqs |-> "none"]
  /\ jobResult = [j \in Reqs |-> NoResult]
  /\ age = [j \in Reqs |-> 0]
  /\ inflight = {}
  /\ timers = {}
  /\ cancelKind = [j \in Reqs |-> ""]
  /\ admitted = <<>>
  /\ step = NoStep
InitWith(configs, n) ==
  /\ InitServer(configs, n)
  /\ exec = NoExec

\* Every configuration, with one request fewer than the bound.
Init == InitWith(Configs, NumReq - 1)

\* ------------------------------------------------------- the /sparql handler
\* The handler of r returns: what it held is dropped.
Return(r) ==
  /\ pc' = [pc EXCEPT ![r] = "done"]
  /\ key' = [key EXCEPT ![r] = NoKey]
  /\ ident' = [ident EXCEPT ![r] = NoIdentity]
  /\ ev' = [ev EXCEPT ![r] = <<>>]
  /\ saw' = [saw EXCEPT ![r] = "none"]
  /\ jobResult' = [jobResult EXCEPT ![r] = NoResult]

\* res.send(...)
Send(r) == nresp' = [nresp EXCEPT ![r] = nresp[r] + 1]

\* A request arrives: the handler runs its gates and, when they pass,
\* computes the cache key and calls cache.get.  Requests are numbered in
\* the order they arrive.
Receive(r, rq) ==
  /\ pc[r] = "idle"
  /\ r <= clients
  /\ \A s \in Reqs : s < r => pc[s] # "idle"
  /\ LET g == Gate(rq) IN
     CASE g = "options" ->
            \* res.status(200); return;  -- nothing is sent
            /\ Return(r)
            /\ step' = Step(g, r, rq, NoResponse, <<>>, NoResponse)
            /\ UNCHANGED nresp
       [] g = "pass" ->
            /\ pc' = [pc EXCEPT ![r] = "get"]
            /\ key' = [key EXCEPT ![r] = CacheKey(rq)]
            /\ ident' = [ident EXCEPT ![r] = Identity(rq)]
            /\ ev' = [ev EXCEPT ![r] = <<"get">>]
            /\ saw' = [saw EXCEPT ![r] = keyNote[Identity(rq)]]
            /\ step' = Step(g, r, rq, NoResponse, <<"get">>, NoResponse)
            /\ UNCHANGED <<nresp, jobResult>>
       [] OTHER ->
            /\ Return(r)
            /\ Send(r)
            /\ step' = Step(g, r, rq, GateResponse(g), <<"send">>, NoResponse)
  /\ UNCHANGED <<exec, config, clients, queueCap>>
  /\ UNCHANGED cacheVars
  /\ UNCHANGED queueVars

\* The cors() middleware in front of the handler (its code is not among the
\* sources) may end an OPTIONS request itself, as a preflight, with 204; a
\* request it passes on reaches the handler (Receive).
CorsPreflight(r, rq) ==
  /\ pc[r] = "idle"
  /\ r <= clients
  /\ \A s \in Reqs : s < r => pc[s] # "idle"
  /\ rq.method = "OPTIONS"
  /\ Return(r)
  /\ Send(r)
  /\ step' = Step("preflight", r, rq, Response(204, "", "", ""), <<"send">>, NoResponse)
  /\ UNCHANGED <<exec, config, clients, queueCap>>
  /\ UNCHANGED cacheVars
  /\ UNCHANGED queueVars

\* The handler after a lookup that gave no entry: it creates a job and
\* enqueues it.  A full waiting list rejects at once with QueueFull, which
\* the catch block answers; otherwise the job is admitted and the handler
\* waits for it.
Enqueue(r, what) ==
  IF Len(waiting) >= queueCap.maxWaiting
  THEN /\ Return(r)
       /\ Send(r)
       /\ step' = Step(what, r, NoRequest, ErrorResponse(QueueFullError),
                       ev[r] \o <<"job", "enqueue", "send">>, NoResponse)
       /\ UNCHANGED queueVars
  ELSE /\ pc' = [pc EXCEPT ![r] = "queued"]
       /\ ev' = [ev EXCEPT ![r] = ev[r] \o <<"job", "enqueue">>]
       /\ saw' = [saw EXCEPT ![r] = IF what = "getfail" THEN "failed" ELSE "none"]
       /\ admitted' = Append(admitted, r)
       /\ Schedule(Append(waiting, r), running, [jobState EXCEPT ![r] = "waiting"],
                   inflight, timers)
       /\ step' = Step(what, r, NoRequest, NoResponse, ev[r] \o <<"job", "enqueue">>,
                       NoResponse)
       /\ UNCHANGED <<key, ident, nresp, jobResult, recent, age, cancelKind>>

\* cache.get of the store in use: what it returns for the file it finds.
\* The null store finds nothing; the file store returns null for a missing
\* file and throws when the file cannot be deserialized.
GetOutcome(r) ==
  IF config.cacheStore = "null" THEN "miss"
  ELSE IF files[key[r]].kind = "absent" THEN "miss"
  ELSE IF DeserializeFails(files[key[r]]) THEN "error"
  ELSE "hit"

\* cache.get returned an entry: it is sent with X-Cache: hit.
GetHitFallsThrough(r) ==
  /\ pc[r] = "get"
  /\ GetOutcome(r) = "hit"
  /\ Enqueue(r, "hit")
  /\ UNCHANGED <<exec, config, clients, queueCap>>
  /\ UNCHANGED cacheVars
GetHit(r) ==
  /\ pc[r] = "get"
  /\ GetOutcome(r) = "hit"
  /\ Return(r)
  /\ Send(r)
  /\ step' = Step("hit", r, NoRequest, HitResponse(Deserialize(files[key[r]])),
                  Append(ev[r], "send"), files[key[r]].sent)
  /\ UNCHANGED <<exec, config, clients, queueCap>>
  /\ UNCHANGED cacheVars
  /\ UNCHANGED queueVars

\* cache.get returned null.
GetMiss(r) ==
  /\ pc[r] = "get"
  /\ GetOutcome(r) = "miss"
  /\ Enqueue(r, "miss")
  /\ UNCHANGED <<exec, config, clients, queueCap>>
  /\ UNCHANGED cacheVars

\* The handler after cache.get threw: the error is logged and the handler
\* goes on as after a miss.
AfterGetErrorResponds500(r) ==
  /\ Return(r)
  /\ Send(r)
  /\ step' = Step("getfail", r, NoRequest, ErrorResponse([statusCode |-> 0, data |-> ""]),
                  Append(ev[r], "send"), NoResponse)
  /\ UNCHANGED queueVars
AfterGetError(r) == Enqueue(r, "getfail")

\* cache.get threw: the file could not be read (any I/O error of the file
\* store) or not be deserialized.
GetFail(r) ==
  /\ pc[r] = "get"
  /\ config.cacheStore = "file"
  /\ AfterGetError(r)
  /\ UNCHANGED <<exec, config, clients, queueCap>>
  /\ UNCHANGED cacheVars

\* The handler resumes with the job's result: it sends the response and
\* then calls cache.put.
ResumePutBeforeSend(r, result) ==
  /\ Send(r)
  /\ ev' = [ev EXCEPT ![r] = ev[r] \o <<"put", "send">>]
  /\ pc' = [pc EXCEPT ![r] = "put"]
  /\ jobResult' = [jobResult EXCEPT ![r] = result]
  /\ step' = Step("result", r, NoRequest, MissResponse(result), ev[r] \o <<"put", "send">>,
                  NoResponse)
  /\ UNCHANGED <<key, ident, saw>>
ResumeWithResult(r, result) ==
  /\ Send(r)
  /\ ev' = [ev EXCEPT ![r] = ev[r] \o <<"send", "put">>]
  /\ pc' = [pc EXCEPT ![r] = "put"]
  /\ jobResult' = [jobResult EXCEPT ![r] = result]
  /\ step' = Step("result", r, NoRequest, MissResponse(result), ev[r] \o <<"send", "put">>,
                  NoResponse)
  /\ UNCHANGED <<key, ident, saw>>

\* The handler resumes with the job's error: the catch block answers it.
ResumeWithErrorThenPut(r, what, err) ==
  /\ Send(r)
  /\ ev' = [ev EXCEPT ![r] = ev[r] \o <<"send", "put">>]
  /\ pc' = [pc EXCEPT ![r] = "put"]
  /\ jobResult' = [jobResult EXCEPT ![r] = [contentType |-> "text", body |-> "ERROR"]]
  /\ step' = Step(what, r, NoRequest, ErrorResponse(err), ev[r] \o <<"send", "put">>,
                  NoResponse)
  /\ UNCHANGED <<key, ident, saw>>
ResumeWithError(r, what, err) ==
  /\ Return(r)
  /\ Send(r)
  /\ step' = Step(what, r, NoRequest, ErrorResponse(err), Append(ev[r], "send"), NoResponse)

\* --------------------------------------------------------------- the job
\* The backend answers job j with a result.  A job that is no longer
\* running (cancelled, timed out) discards the answer.
BackendReply(j, result) ==
  /\ j \in inflight
  /\ IF StillRunning(j)
     THEN /\ Finish(j, "success", inflight \ {j}, timers)
          /\ ResumeWithResult(j, result)
          /\ UNCHANGED cancelKind
     ELSE /\ Discard(inflight \ {j}, timers)
          /\ step' = Step("late", j, NoRequest, NoResponse, <<>>, NoResponse)
          /\ UNCHANGED httpVars
  /\ UNCHANGED <<exec, config, clients, queueCap>>
  /\ UNCHANGED cacheVars

\* The backend answers job j with an error (or the call fails).
BackendError(j, err) ==
  /\ j \in inflight
  /\ IF StillRunning(j)
     THEN /\ Finish(j, "error", inflight \ {j}, timers)
          /\ ResumeWithError(j, "error", err)
          /\ UNCHANGED cancelKind
     ELSE /\ Discard(inflight \ {j}, timers)
          /\ step' = Step("late", j, NoRequest, NoResponse, <<>>, NoResponse)
          /\ UNCHANGED httpVars
  /\ UNCHANGED <<exec, config, clients, queueCap>>
  /\ UNCHANGED cacheVars

\* Job j's timeout timer fires: a running job ends in error (Timeout), a
\* job that has already ended is left alone.
Timeout(j) ==
  /\ j \in timers
  /\ IF StillRunning(j)
     THEN /\ Finish(j, "error", inflight, timers \ {j})
          /\ ResumeWithError(j, "timeout", TimeoutError)
          /\ UNCHANGED cancelKind
     ELSE /\ Discard(inflight, timers \ {j})
          /\ step' = Step("late", j, NoRequest, NoResponse, <<>>, NoResponse)
          /\ UNCHANGED httpVars
  /\ UNCHANGED <<exec, config, clients, queueCap>>
  /\ UNCHANGED cacheVars

\* ---------------------------------------------------------- the live channel
\* queue.cancel(id): a waiting or a running job ends cancelled and its
\* requester is released with Cancelled.  Any other id changes nothing.
QueueCancel(id) ==
  IF jobState[id] \in {"waiting", "running"}
  THEN /\ cancelKind' = [cancelKind EXCEPT ![id] = jobState[id]]
       /\ Finish(id, "cancelled", inflight, timers)
       /\ ResumeWithError(id, "cancel", CancelledError)
  ELSE /\ step' = NoStep
       /\ UNCHANGED queueVars
       /\ UNCHANGED httpVars

\* socket.on('cancel_job'): queue.cancel(data.id)
CancelJob(id) ==
  /\ QueueCancel(id)
  /\ UNCHANGED <<exec, config, clients, queueCap>>
  /\ UNCHANGED cacheVars

\* socket.on('purge_cache'): cache.purge() removes the store's directory.
\* What was known of a query is void for the requests under way.
Purge ==
  /\ files' = [k \in Keys |-> IF config.cacheStore = "file" THEN AbsentFile ELSE files[k]]
  /\ keyNote' = [i \in Identities |-> "none"]
  /\ saw' = [r \in Reqs |-> CASE pc[r] = "get" -> "none"
                              [] pc[r] \in {"queued", "put", "write"} -> "purged"
                              [] OTHER -> saw[r]]
  /\ step' = NoStep
  /\ UNCHANGED <<exec, config, clients, queueCap, pc, key, ident, nresp, ev, jobResult>>
  /\ UNCHANGED queueVars

\* ------------------------------------------------------------- cache.put
\* What is known of r's query once r's cache.put has ended: stored when the
\* entry is in the store, success when r's job succeeded and no purge came
\* between r's lookup and now.
NoteAfterPut(r, stored) ==
  LET i == ident[r] IN
  IF stored THEN [keyNote EXCEPT ![i] = "stored"]
  ELSE IF saw[r] = "none" /\ keyNote[i] = "none" THEN [keyNote EXCEPT ![i] = "success"]
  ELSE keyNote

\* put of the null store: nothing is kept.
PutNull(r) ==
  /\ pc[r] = "put"
  /\ config.cacheStore = "null"
  /\ Return(r)
  /\ keyNote' = NoteAfterPut(r, FALSE)
  /\ step' = Step("putdone", r, NoRequest, NoResponse, ev[r], NoResponse)
  /\ UNCHANGED <<exec, config, clients, queueCap, nresp, files>>
  /\ UNCHANGED queueVars

\* put of the file store, first part: the entry is serialized, the
\* directories are made and writeFile opens the file, which creates or
\* truncates it.
PutOpen(r) ==
  /\ pc[r] = "put"
  /\ config.cacheStore = "file"
  /\ files' = [files EXCEPT ![key[r]] = PartialFile]
  /\ pc' = [pc EXCEPT ![r] = "write"]
  /\ step' = NoStep
  /\ UNCHANGED <<exec, config, clients, queueCap, key, ident, nresp, ev, saw, jobResult, keyNote>>
  /\ UNCHANGED queueVars

\* put of the file store, second part: writeFile writes the bytes and put
\* returns.  A file removed since it was opened stays removed; bytes
\* written over those of another writer leave the file whole (clean) or
\* with that writer's longer tail behind (not clean).
PutWrite(r, clean) ==
  /\ pc[r] = "write"
  /\ LET f == files[key[r]]
         mine == [Serialize(jobResult[r], MissResponse(jobResult[r])) EXCEPT !.by = ident[r]]
     IN /\ clean \/ f.kind = "entry"
        /\ files' = [files EXCEPT ![key[r]] =
                       IF f.kind = "absent" THEN AbsentFile
                       ELSE IF clean THEN mine ELSE PartialFile]
        /\ keyNote' = NoteAfterPut(r, f.kind # "absent" /\ clean)
  /\ Return(r)
  /\ step' = Step("putdone", r, NoRequest, NoResponse, ev[r], NoResponse)
  /\ UNCHANGED <<exec, config, clients, queueCap, nresp>>
  /\ UNCHANGED queueVars

\* The handler after cache.put threw: the error is logged.
AfterPutErrorResponds(r) ==
  /\ Send(r)
  /\ step' = Step("putfail", r, NoRequest, ErrorResponse([statusCode |-> 0, data |-> ""]),
                  Append(ev[r], "send"), NoResponse)
AfterPutError(r) ==
  /\ step' = Step("putfail", r, NoRequest, NoResponse, ev[r], NoResponse)
  /\ UNCHANGED nresp

\* cache.put threw (mkdirp or writeFile failed): the file is left as it is.
PutFail(r) ==
  /\ pc[r] \in {"put", "write"}
  /\ config.cacheStore = "file"
  /\ AfterPutError(r)
  /\ Return(r)
  /\ keyNote' = NoteAfterPut(r, FALSE)
  /\ UNCHANGED <<exec, config, clients, queueCap, files>>
  /\ UNCHANGED queueVars

\* ------------------------------------------------------------- the sweeper
\* Time passes: every finished job is older.
Tick ==
  /\ age' = [j \in Reqs |-> IF j \in recent
                            THEN Min(age[j] + 1, config.durationToKeepOldJobs + 1)
                            ELSE age[j]]
  /\ step' = NoStep
  /\ UNCHANGED <<exec, config, clients, queueCap>>
  /\ UNCHANGED httpVars
  /\ UNCHANGED cacheVars
  /\ UNCHANGED <<waiting, running, recent, jobState, inflight, timers, cancelKind, admitted>>

\* setInterval: queue.sweepOldItems(new Date() - durationToKeepOldJobs)
\* drops the finished jobs whose doneAt is before the threshold, that is
\* whose age is more than durationToKeepOldJobs.
SweepEverything ==
  /\ recent' = {}
  /\ age' = [j \in Reqs |-> 0]
  /\ jobState' = Collect(jobState, recent', inflight, timers)
  /\ cancelKind' = [j \in Reqs |-> IF jobState'[j] = "gone" THEN "" ELSE cancelKind[j]]
  /\ step' = NoStep
  /\ UNCHANGED <<exec, config, clients, queueCap>>
  /\ UNCHANGED httpVars
  /\ UNCHANGED cacheVars
  /\ UNCHANGED <<waiting, running, inflight, timers, admitted>>
Sweep ==
  /\ recent' = {j \in recent : ~(age[j] > config.durationToKeepOldJobs)}
  /\ age' = [j \in Reqs |-> IF j \in recent' THEN age[j] ELSE 0]
  /\ jobState' = Collect(jobState, recent', inflight, timers)
  /\ cancelKind' = [j \in Reqs |-> IF jobState'[j] = "gone" THEN "" ELSE cancelKind[j]]
  /\ step' = NoStep
  /\ UNCHANGED <<exec, config, clients, queueCap>>
  /\ UNCHANGED httpVars
  /\ UNCHANGED cacheVars
  /\ UNCHANGED <<waiting, running, inflight, timers, admitted>>

\* ------------------------------------------------------------ /jobs/:token
\* req.query.token of request r, which enqueue(job, token) ties to its job:
\* the first client has a token of its own, the later ones reuse one.
Tokens == {"T0", "T1", "T2"}
JobToken(r) == IF r = 1 THEN "T1" ELSE "T2"

\* The jobs the queue still lists.
Visible == Range(waiting) \cup running \cup recent

\* queue.jobStatus(token): the summaries of the listed jobs of that token
\* (the queue returns that of the most recent one), none when there is no
\* such job.
QueueJobStatus(t) == {jobState[j] : j \in {i \in Visible : JobToken(i) = t}}

\* app.get('/jobs/:token'): 404 when the queue knows no job of the token,
\* the job's summary otherwise.
JobStatus(t) ==
  /\ \/ /\ QueueJobStatus(t) = {}
        /\ step' = [NoStep EXCEPT !.what = "status", !.ev = <<"jobStatus", t>>,
                                  !.resp = Response(404, "text", "Job not found", "")]
     \/ \E js \in QueueJobStatus(t) :
          step' = [NoStep EXCEPT !.what = "status", !.ev = <<"jobStatus", t>>,
                                 !.resp = Response(200, "application/json", js, "")]
  /\ UNCHANGED <<exec, config, clients, queueCap>>
  /\ UNCHANGED httpVars
  /\ UNCHANGED cacheVars
  /\ UNCHANGED queueVars

Next ==
  \/ \E r \in Reqs, rq \in HttpRequests : CorsPreflight(r, rq)
  \/ \E r \in Reqs, rq \in HttpRequests : Receive(r, rq)
  \/ \E r \in Reqs : GetHit(r)
  \/ \E r \in Reqs : GetMiss(r)
  \/ \E r \in Reqs : GetFail(r)
  \/ \E j \in Reqs, result \in Results : BackendReply(j, result)
  \/ \E j \in Reqs, err \in BackendErrors : BackendError(j, err)
  \/ \E j \in Reqs : Timeout(j)
  \/ \E id \in Reqs : CancelJob(id)
  \/ Purge
  \/ \E r \in Reqs : PutNull(r)
  \/ \E r \in Reqs : PutOpen(r)
  \/ \E r \in Reqs, clean \in BOOLEAN : PutWrite(r, clean)
  \/ \E r \in Reqs : PutFail(r)
  \/ Tick
  \/ Sweep

Spec == Init /\ [][Next]_vars

\* The queue under the null store (nothing is ever cached), with every
\* request of the bound.
InitQueue == InitWith(QueueConfigs, NumReq)
NextQueue ==
  \/ \E r \in Reqs, rq \in HttpRequests : Receive(r, rq)
  \/ \E r \in Reqs : GetMiss(r)
  \/ \E j \in Reqs, result \in Results : BackendReply(j, result)
  \/ \E j \in Reqs, err \in BackendErrors : BackendError(j, err)
  \/ \E j \in Reqs : Timeout(j)
  \/ \E id \in Reqs : CancelJob(id)
  \/ \E r \in Reqs : PutNull(r)
  \/ Tick
  \/ Sweep
SpecQueue == InitQueue /\ [][NextQueue]_vars

\* The handler and the file store while no timeout elapses, no job is
\* cancelled and the sweeper does not run, with every request of the bound.
InitCache == InitWith(CacheConfigs, NumReq)
NextCache ==
  \/ \E r \in Reqs, rq \in HttpRequests : Receive(r, rq)
  \/ \E r \in Reqs : GetHit(r)
  \/ \E r \in Reqs : GetMiss(r)
  \/ \E r \in Reqs : GetFail(r)
  \/ \E j \in Reqs, result \in Results : BackendReply(j, result)
  \/ \E j \in Reqs, err \in BackendErrors : BackendError(j, err)
  \/ Purge
  \/ \E r \in Reqs : PutOpen(r)
  \/ \E r \in Reqs, clean \in BOOLEAN : PutWrite(r, clean)
  \/ \E r \in Reqs : PutFail(r)
SpecCache == InitCache /\ [][NextCache]_vars

\* The queue, its sweeper and the /jobs endpoint under the null store, while
\* no timeout elapses, with every request of the bound.
SweepConfigs == {Config(<<1, 1>>, FALSE, "null")}
InitSweep == InitWith(SweepConfigs, NumReq)
NextSweep ==
  \/ \E r \in Reqs, rq \in HttpRequests : Receive(r, rq)
  \/ \E r \in Reqs : GetMiss(r)
  \/ \E j \in Reqs, result \in Results : BackendReply(j, result)
  \/ \E j \in Reqs, err \in BackendErrors : BackendError(j, err)
  \/ \E id \in Reqs : CancelJob(id)
  \/ \E r \in Reqs : PutNull(r)
  \/ \E t \in Tokens : JobStatus(t)
  \/ Tick
  \/ Sweep
SpecSweep == InitSweep /\ [][NextSweep]_vars

\* One job's run, from the request the handler builds the job from: every
\* limit setting, LIMIT, OFFSET and number of backend rows of the bounds.
ChunkRequests ==
  {Get("SELECT ?s WHERE { ?s ?p ?o }", "application/sparql-results+xml"),
   Get("SELECT ?s WHERE { ?s ?p ?o }", ""),
   Get("ASK { ?s ?p ?o }", "application/sparql-results+xml"),
   Get("ASK { ?s ?p ?o }", "")}
ChunkConfigs ==
  {[Config(<<1, 1>>, split, "null") EXCEPT !.maxLimit = ml, !.maxChunkLimit = mc] :
     split \in BOOLEAN, ml \in 1..3, mc \in 1..2}
InitChunk ==
  /\ InitServer(ChunkConfigs, 0)
  /\ \E rq \in ChunkRequests, u \in UserLimits, o \in UserOffsets, n \in 0..MaxRows :
       exec = StartExec(rq, u, o, n)
NextChunk ==
  \/ CreateJob
  \/ IssueShard
  \/ ShardReply
  \/ Merge
  \/ Forward
  \/ ForwardReply
SpecChunk == InitChunk /\ [][NextChunk]_vars

\* ================================================================ properties

\* C1: at every moment the queue runs at most maxConcurrency jobs and holds
\* at most maxWaiting jobs in its waiting list.
C1_QueueBounds ==
  /\ Cardinality(running) <= config.maxConcurrency
  /\ Len(waiting) <= config.maxWaiting
\* Both lists are full, with two jobs waiting behind a running one.
C1_Witness ==
  /\ Cardinality(running) = config.maxConcurrency
  /\ Len(waiting) = config.maxWaiting
  /\ config.maxWaiting > config.maxConcurrency

\* C2: a job's state only moves forward, waiting -> running -> success,
\* error or cancelled, or waiting -> cancelled; a job in a terminal state
\* keeps it until the job is dropped, and a running job never waits again.
C2_JobStateMonotone ==
  [][\A j \in Reqs :
       /\ jobState[j] = "none" => jobState'[j] \in {"none", "waiting", "running"}
       /\ jobState[j] = "waiting" => jobState'[j] \in {"waiting", "running", "cancelled"}
       /\ jobState[j] = "running" =>
            jobState'[j] \in {"running", "success", "error", "cancelled"}
       /\ jobState[j] \in Terminal => jobState'[j] \in {jobState[j], "gone"}
       /\ jobState[j] = "gone" => jobState'[j] = "gone"]_vars
\* A backend answer or a timer has reached a job that had already ended.
C2_Witness ==
  /\ step.what = "late"
  /\ jobState[step.r] \in Terminal

\* C3: jobs start in the order they were enqueued: every running job was
\* admitted before every waiting job, the waiting list is in admission
\* order, and no slot stays free while a job waits.
C3_FifoStart ==
  /\ \A s \in running : \A w \in Range(waiting) :
       IndexOf(admitted, s) < IndexOf(admitted, w)
  /\ \A a, b \in 1..Len(waiting) :
       a < b => IndexOf(admitted, waiting[a]) < IndexOf(admitted, waiting[b])
  /\ Len(waiting) > 0 => Cardinality(running) >= config.maxConcurrency
\* A job has just ended while two jobs waited: one of them runs now and the
\* other still waits.
C3_Witness ==
  /\ step.what \in {"result", "error", "timeout"}
  /\ config.maxConcurrency < config.maxWaiting
  /\ Cardinality(running) = config.maxConcurrency
  /\ Len(waiting) > 0

\* C4: an enqueue while the waiting list is full fails at once: the queue
\* is unchanged, the job is never in the queue, and the request is answered
\* with status 503 and the text QueueFull.
C4_QueueFullRejects ==
  [][\A r \in Reqs :
       (/\ pc[r] = "get"
        /\ step'.r = r
        /\ step'.what \in {"miss", "getfail"}
        /\ Len(waiting) >= config.maxWaiting)
       => /\ UNCHANGED queueVars
          /\ jobState'[r] = "none"
          /\ step'.resp = Response(503, "text", "QueueFull", "")
          /\ pc'[r] = "done"
          /\ nresp'[r] = 1]_vars
\* A request has just been refused by a full waiting list.
C4_Witness ==
  /\ step.what = "miss"
  /\ step.resp.body = "QueueFull"
  /\ Len(waiting) = config.maxWaiting
  /\ jobState[step.r] = "none"

\* C5: a job cancelled while it waits leaves the waiting list, ends
\* cancelled, never runs (no backend call, no timer), and its requester is
\* answered with status 503 and the text Cancelled.
C5_CancelWaiting ==
  /\ \A j \in Reqs :
       cancelKind[j] = "waiting" =>
         /\ jobState[j] = "cancelled"
         /\ j \notin Range(waiting)
         /\ j \notin running
         /\ j \notin inflight
         /\ j \notin timers
         /\ pc[j] = "done"
         /\ nresp[j] = 1
  /\ step.what = "cancel" =>
       /\ step.resp = Response(503, "text", "Cancelled", "")
       /\ jobState[step.r] = "cancelled"
\* A waiting job has just been cancelled while another job goes on running.
C5_Witness ==
  /\ step.what = "cancel"
  /\ cancelKind[step.r] = "waiting"
  /\ running # {}

EnqueuedOrRefused ==
  \/ /\ step.ev = <<"get", "job", "enqueue">>
     /\ step.resp = NoResponse
     /\ pc[step.r] = "queued"
     /\ jobState[step.r] \in {"waiting", "running"}
     /\ nresp[step.r] = 0
  \/ /\ step.ev = <<"get", "job", "enqueue", "send">>
     /\ step.resp = Response(503, "text", "QueueFull", "")
     /\ pc[step.r] = "done"
     /\ jobState[step.r] = "none"
     /\ nresp[step.r] = 1
\* C8: a cache.get that throws is handled exactly as a miss: the request's
\* job is enqueued and no error response comes from the cache failure.
C8_GetErrorAsMiss ==
  step.what \in {"getfail", "miss"} => EnqueuedOrRefused
\* A lookup has just failed and the request's job is in the queue.
C8_Witness ==
  /\ step.what = "getfail"
  /\ jobState[step.r] \in {"waiting", "running"}

\* C9: on a miss the response is sent before cache.put is called, and a
\* cache.put that throws sends no second response and leaves the request
\* with the one response it got.
C9_SendBeforePut ==
  /\ \A r \in Reqs : nresp[r] <= 1
  /\ \A r \in Reqs :
       pc[r] \in {"put", "write"} =>
         /\ nresp[r] = 1
         /\ ev[r] = <<"get", "job", "enqueue", "send", "put">>
  /\ step.what = "result" => step.resp.status = 200 /\ nresp[step.r] = 1
  /\ step.what = "putfail" =>
       /\ step.resp = NoResponse
       /\ step.ev = <<"get", "job", "enqueue", "send", "put">>
       /\ nresp[step.r] = 1
       /\ pc[step.r] = "done"
\* A cache.put has just thrown for a request that had its response.
C9_Witness ==
  /\ step.what = "putfail"
  /\ nresp[step.r] = 1

\* The status the gates give a request: 405 for a method other than GET,
\* POST and OPTIONS, 400 for a GET or POST without a query, with a query
\* that does not parse or with one that is not of type query; 0 otherwise.
GateStatus(rq) ==
  LET q == IF rq.method = "POST" THEN rq.body ELSE rq.param IN
  IF rq.method \notin {"GET", "POST", "OPTIONS"} THEN 405
  ELSE IF rq.method # "OPTIONS" /\ (q = NoQuery \/ ParseFails(q) \/ ParsedType(q) # "query")
  THEN 400
  ELSE 0
\* C10: a request the gates reject is answered with 405 or 400 and nothing
\* else happens: no cache.get, no job, no enqueue, no cache.put.
C10_GateFailures ==
  (step.req # NoRequest /\ GateStatus(step.req) # 0) =>
    /\ step.resp.status = GateStatus(step.req)
    /\ step.ev = <<"send">>
    /\ pc[step.r] = "done"
    /\ nresp[step.r] = 1
    /\ jobState[step.r] = "none"
    /\ step.r \notin Range(admitted)
\* An update has just been refused with 400.
C10_Witness ==
  /\ step.req.method = "POST"
  /\ ParsedType(step.req.body) = "update"
  /\ step.resp.status = 400

\* The rows a run is to return: those the backend holds past the query's
\* OFFSET, cut at the query's LIMIT and at the configured maxLimit.
WantedRows(e) ==
  LET past == IF e.rows > e.userOffset THEN e.rows - e.userOffset ELSE 0
      cut == IF e.userLimit = NoLimit THEN config.maxLimit
             ELSE Min(e.userLimit, config.maxLimit)
  IN Min(cut, past)
C12_Original ==
  (exec.phase \in {"ready", "sent", "done"} /\ config.enableQuerySplitting
     /\ exec.form # "SELECT") =>
    LET client == IF exec.req.accept = "" THEN DefaultAccept ELSE exec.req.accept
    IN /\ exec.key[2] = client
       /\ \A k \in 1..Len(exec.calls) : exec.calls[k].accept = client

\* C13: the shards of a split run go out one at a time; shard k (from 0) has
\* OFFSET userOffset + k*chunk and LIMIT min(chunk, effectiveLimit - rows
\* collected so far), and a shard is only sent while fewer rows than
\* effectiveLimit are collected and every earlier shard came back full.
C13_ShardSequence ==
  (Splits(exec) /\ exec.phase # "new") =>
    LET cut == IF exec.userLimit = NoLimit THEN config.maxLimit
               ELSE Min(exec.userLimit, config.maxLimit)
        chunk == Min(config.maxChunkLimit, cut)
        got(k) == Len(BackendAnswer(exec.rows, exec.calls[k].limit, exec.calls[k].offset))
    IN /\ exec.replies = IF exec.phase = "sent" THEN Len(exec.calls) - 1 ELSE Len(exec.calls)
       /\ \A k \in 1..Len(exec.calls) :
            /\ exec.calls[k].offset = exec.userOffset + (k - 1) * chunk
            /\ exec.calls[k].limit = Min(chunk, cut - (k - 1) * chunk)
            /\ (k - 1) * chunk < cut
            /\ k > 1 => got(k - 1) = exec.calls[k - 1].limit
       /\ exec.phase = "ready" => Len(exec.collected) = Min(cut, Len(exec.calls) * chunk)
\* A run has ended after a full first shard and a shorter last one.
C13_Witness ==
  /\ exec.phase = "done"
  /\ Len(exec.calls) = 2
  /\ exec.calls[1] = [limit |-> 2, offset |-> 1, accept |-> DefaultAccept]
  /\ exec.calls[2] = [limit |-> 1, offset |-> 3, accept |-> DefaultAccept]

\* C14: with splitting disabled, the entry a lookup finds was stored for a
\* request with the same canonical query and the same accept type; requests
\* under way whose accept types differ have different cache keys.
C14_AcceptKeyed ==
  ~config.enableQuerySplitting =>
    /\ \A r \in Reqs :
         (pc[r] = "get" /\ files[key[r]].kind = "entry") => files[key[r]].by = ident[r]
    /\ \A r, t \in Reqs :
         (pc[r] \notin {"idle", "done"} /\ pc[t] \notin {"idle", "done"}
            /\ ident[r][2] # ident[t][2]) => key[r] # key[t]
\* A JSON entry is stored and a request for the same query as XML is about
\* to look up its own key.
C14_Witness ==
  /\ ~config.enableQuerySplitting
  /\ \E r \in Reqs :
       /\ pc[r] = "get"
       /\ ident[r][2] = "application/sparql-results+xml"
       /\ files[<<ident[r][1], DefaultAccept, config.compressor>>].kind = "entry"

\* C15: a job cancelled while it runs ends cancelled; its requester gets 503
\* Cancelled as its only response, holds no result and makes no cache.put,
\* and a backend answer that comes after the cancel is dropped without a
\* response.
C15_CancelRunning ==
  /\ \A j \in Reqs :
       cancelKind[j] = "running" =>
         /\ jobState[j] = "cancelled"
         /\ j \notin running
         /\ pc[j] = "done"
         /\ nresp[j] = 1
         /\ jobResult[j] = NoResult
  /\ step.what = "cancel" =>
       /\ step.resp = Response(503, "text", "Cancelled", "")
       /\ step.ev = <<"get", "job", "enqueue", "send">>
  /\ step.what = "late" =>
       /\ step.resp = NoResponse
       /\ step.ev = <<>>
       /\ nresp[step.r] = 1
       /\ jobState[step.r] \in Terminal \cup {"gone"}
\* The backend has just answered a job that was cancelled while running.
C15_Witness ==
  /\ step.what = "late"
  /\ cancelKind[step.r] = "running"
  /\ step.r \notin inflight

\* C16: a request answered from the cache leaves the queue and the store as
\* they are: its handler only looks up and sends, no job is created or
\* enqueued and no cache.put is made.
C16_HitFrame ==
  [][\A r \in Reqs :
       (pc[r] = "get" /\ step'.r = r /\ step'.what = "hit")
       => /\ UNCHANGED queueVars
          /\ UNCHANGED cacheVars
          /\ step'.ev = <<"get", "send">>
          /\ pc'[r] = "done"
          /\ jobState'[r] = "none"
          /\ nresp'[r] = 1]_vars
\* A request has just been answered from the cache while a job is running.
C16_Witness ==
  /\ step.what = "hit"
  /\ running # {}
  /\ jobState[step.r] = "none"

\* C17: a job leaves the queue's lists only when it is finished and was
\* done before the sweeper's threshold (it is older than
\* durationToKeepOldJobs): a waiting or running job is never dropped, a
\* finished job that is not that old stays listed, and /jobs/:token answers
\* 404 exactly when no listed job has the token.
C17_SweepOnlyOld ==
  [][/\ \A j \in Reqs :
          (j \in Visible /\ j \notin Visible')
          => /\ j \in recent
             /\ jobState[j] \in Terminal
             /\ age[j] > config.durationToKeepOldJobs
     /\ \A j \in Reqs :
          (jobState[j] \in {"waiting", "running"} /\ jobState'[j] \in Terminal)
          => j \in recent'
     /\ step'.what = "status" =>
          LET t == step'.ev[2] IN
          /\ step'.resp.status = 404 <=> (\A j \in Visible : JobToken(j) # t)
          /\ step'.resp.status # 404 =>
               \E j \in Visible : JobToken(j) = t /\ step'.resp.body = jobState[j]]_vars
\* The endpoint has just answered 404 for the token of a request whose job
\* was swept.
C17_Witness ==
  /\ step.what = "status"
  /\ step.ev[2] = "T1"
  /\ step.resp.status = 404
  /\ pc[1] = "done"
  /\ jobState[1] \in Terminal \cup {"gone"}

\* C18 as stated: a get of the file store never finds a partially written
\* file under the key it reads.
C18_Original ==
  \A r \in Reqs : pc[r] = "get" => files[key[r]].kind # "partial"

\* C19: cache.put is only called with the result of a job that succeeded:
\* every stored entry is a job's result sent with status 200, a request
\* whose job failed, timed out, was cancelled or was refused by the full
\* queue ends without a put, and a hit never serves an error.
C19_OnlySuccessCached ==
  /\ \A r \in Reqs :
       pc[r] \in {"put", "write"} =>
         /\ jobResult[r] \in Results
         /\ jobState[r] \in {"success", "gone"}
  /\ \A k \in Keys :
       files[k].kind = "entry" =>
         /\ files[k].sent.status = 200
         /\ [contentType |-> files[k].contentType, body |-> files[k].body] \in Results
  /\ step.resp.status >= 400 =>
       /\ pc[step.r] = "done"
       /\ \A i \in 1..Len(step.ev) : step.ev[i] # "put"
  /\ step.what = "hit" =>
       /\ step.resp.status = 200
       /\ \E res \in Results : res.body = step.resp.body
\* A request has just been refused by the full queue of a server that uses
\* the file store, and nothing is stored.
C19_Witness ==
  /\ step.what = "miss"
  /\ step.resp.body = "QueueFull"
  /\ config.cacheStore = "file"
  /\ \A k \in Keys : files[k].kind = "absent"

\* C20 as stated, for OPTIONS: the request is answered, once, with 200.
C20_Original ==
  step.req.method = "OPTIONS" =>
    /\ step.resp.status = 200
    /\ nresp[step.r] = 1

====
